---- MODULE Spec2Model ----
(***************************************************************************)
(* Model of check_internet_restriction.py: the InternetRestrictionChecker  *)
(* class (its results dictionary, add_result, the eight probes,            *)
(* calculate_overall_status, run_all_checks) and main().                   *)
(*                                                                         *)
(* The results dictionary is held in three variables (tests,               *)
(* issues_found, overall_status); its timestamp is written once by         *)
(* __init__ and read by nothing, and is left out.  The network, the ping  *)
(* subprocess and the requests library are the environment: every probe    *)
(* draws what they answer from the sets defined below.                     *)
(***************************************************************************)
EXTENDS Integers, Sequences, FiniteSets, TLC

VARIABLES
    tests,               \* self.results["tests"]
    issues_found,        \* self.results["issues_found"]
    overall_status,      \* self.results["overall_status"]
    REQUESTS_AVAILABLE,  \* module flag set by the import of requests
    pc,                  \* where control is: the caller ("idle"), a step of
                         \* run_all_checks, a propagating exception, or exit
    runs,                \* calls of run_all_checks that have returned
    exit_code,           \* the process exit status, -1 while running
    requests_sent,       \* requests.get calls issued so far
    env                  \* what the environment answered to the last probe

vars == <<tests, issues_found, overall_status, REQUESTS_AVAILABLE, pc, runs,
          exit_code, requests_sent, env>>

results == <<tests, issues_found, overall_status>>

-----------------------------------------------------------------------------
(* Bounds of the model *)

\* cap on len(results["tests"]): no outcome is appended beyond it
MaxTests == 9
\* calls of run_all_checks a client makes on one checker
MaxRuns == 2
\* calls of add_result a client makes itself on one checker
MaxClientAdds == 1
\* longest elapsed time of a request, in seconds (requests time out at 10)
MaxElapsed == 6
\* longest outcome list the aggregation is applied to on its own
MaxOutcomes == 10

-----------------------------------------------------------------------------
(* Program constants *)

NumDnsDomains == 3
NumAccessDomains == 10
NumPorts == 5
NumUrls == 2
NumDnsServers == 3
PingCount == 5
SlowSeconds == 5
DpiFactor == 3

\* a detail string; args are the values an f-string interpolates
D(text) == [text |-> text, args |-> <<>>]
DA(text, args) == [text |-> text, args |-> args]

\* What the environment answered during a probe: whether a blocking operation
\* timed out, whether one raised an exception of a class the probe has no
\* handler for, and the loss percentage ping reported (-1: none).
NoEnv == [probe |-> 0, timeout |-> FALSE, fault |-> FALSE, loss |-> -1]
Env(p, t, f) == [probe |-> p, timeout |-> t, fault |-> f, loss |-> -1]

-----------------------------------------------------------------------------
(* __init__ *)

InitChecker ==
    /\ tests = <<>>
    /\ overall_status = "unknown"
    /\ issues_found = <<>>

Init ==
    /\ InitChecker
    /\ REQUESTS_AVAILABLE \in BOOLEAN
    /\ pc = "idle"
    /\ runs = 0
    /\ exit_code = -1
    /\ requests_sent = 0
    /\ env = NoEnv

-----------------------------------------------------------------------------
(* add_result *)

add_result_issue_first(test_name, passed, details) ==
    /\ tests' = Append(tests, [name |-> test_name, passed |-> passed,
                               details |-> details])
    /\ issues_found' = IF ~passed THEN <<test_name>> \o issues_found
                       ELSE issues_found

add_result(test_name, passed, details) ==
    /\ tests' = Append(tests, [name |-> test_name, passed |-> passed,
                               details |-> details])
    /\ issues_found' = IF ~passed THEN Append(issues_found, test_name)
                       ELSE issues_found

\* an exception leaves the probe: nothing is recorded
raise ==
    /\ pc' = "raised"
    /\ UNCHANGED <<tests, issues_found>>

-----------------------------------------------------------------------------
(* check_dns_resolution *)

\* socket.gethostbyname: an address, socket.gaierror, socket.timeout, or an
\* exception of another class ("fault").  "empty" is a falsy return value; the
\* code tests for it, the resolver never produces it.
LookupResults == {"addr", "gaierror", "timeout", "fault"}

RECURSIVE DnsResolutionLoop(_, _, _)
DnsResolutionLoop(r, i, all_passed) ==
    IF i > Len(r) THEN [raised |-> FALSE, all_passed |-> all_passed]
    ELSE IF r[i] = "addr" THEN DnsResolutionLoop(r, i + 1, all_passed)
    ELSE IF r[i] = "empty" THEN DnsResolutionLoop(r, i + 1, FALSE)
    ELSE IF r[i] = "gaierror" THEN DnsResolutionLoop(r, i + 1, FALSE)
    ELSE IF r[i] = "timeout" THEN DnsResolutionLoop(r, i + 1, FALSE)
    ELSE [raised |-> TRUE, all_passed |-> all_passed]

\* the lookups made before an exception ended the loop (all, if none did)
Made(r) ==
    {i \in 1..Len(r) : \A j \in 1..(i - 1) : r[j] # "fault"}

check_dns_resolution ==
    /\ pc = "p1"
    /\ Len(tests) < MaxTests
    /\ \E r \in [1..NumDnsDomains -> LookupResults] :
         LET out == DnsResolutionLoop(r, 1, TRUE)
             timedOut == \E i \in Made(r) : r[i] = "timeout"
         IN  /\ env' = Env(1, timedOut, \E i \in 1..Len(r) : r[i] = "fault")
             /\ IF out.raised THEN raise
                ELSE /\ add_result("DNS Resolution", out.all_passed,
                           IF out.all_passed
                           THEN D("All common domains resolved successfully")
                           ELSE D("Some domains failed to resolve"))
                     /\ pc' = "p2"
    /\ UNCHANGED <<overall_status, REQUESTS_AVAILABLE, runs, exit_code,
                   requests_sent>>

-----------------------------------------------------------------------------
(* check_dns_against_blocked_domains *)

\* The loop over the ten domains only counts, so its input is drawn as the
\* numbers of lookups that ended in gaierror and in timeout (the others
\* returned an address), and whether one raised another exception.  The
\* numbers of blocked domains drawn are none, all, and those around the half.
BlockedCounts == {0, 4, 5, 6, NumAccessDomains}

AccessInputs ==
    {in \in [gaierror : 0..NumAccessDomains, timeout : 0..NumAccessDomains,
             fault : BOOLEAN] :
        /\ in.gaierror + in.timeout \in BlockedCounts
        /\ in.gaierror + in.timeout + (IF in.fault THEN 1 ELSE 0)
               <= NumAccessDomains}

\* blocked_count > len(test_domains) * 0.5
IsRestricted(blocked_count) == 2 * blocked_count > NumAccessDomains

check_dns_against_blocked_domains ==
    /\ pc = "p2"
    /\ Len(tests) < MaxTests
    /\ \E in \in AccessInputs :
         LET blocked_count == in.gaierror + in.timeout
             accessible_count == NumAccessDomains - blocked_count
             status == ~IsRestricted(blocked_count)
         IN  /\ env' = Env(2, in.timeout > 0, in.fault)
             /\ IF in.fault THEN raise
                ELSE /\ add_result("Domain Accessibility", status,
                           DA("domains accessible, blocked",
                              <<accessible_count, NumAccessDomains,
                                blocked_count>>))
                     /\ pc' = "p3"
    /\ UNCHANGED <<overall_status, REQUESTS_AVAILABLE, runs, exit_code,
                   requests_sent>>

-----------------------------------------------------------------------------
(* check_port_connectivity *)

\* sock.connect_ex: 0, an error number, socket.timeout, or another exception
\* (name resolution of the host included); all are handled in the loop
ConnectResults == {"zero", "errno", "timeout", "error"}

RECURSIVE PortLoop(_, _, _)
PortLoop(r, i, all_passed) ==
    IF i > Len(r) THEN all_passed
    ELSE IF r[i] = "zero" THEN PortLoop(r, i + 1, all_passed)
    ELSE PortLoop(r, i + 1, FALSE)

\* the probe as it would be if a blocked port ended the run
check_port_connectivity_stop_on_failure ==
    /\ pc = "p3"
    /\ Len(tests) < MaxTests
    /\ \E r \in [1..NumPorts -> ConnectResults] :
         LET all_passed == PortLoop(r, 1, TRUE)
         IN  /\ add_result("Port Connectivity", all_passed,
                   IF all_passed THEN D("All tested ports are accessible")
                   ELSE D("Some ports are blocked"))
             /\ env' = Env(3, \E i \in 1..NumPorts : r[i] = "timeout", FALSE)
             /\ pc' = IF all_passed THEN "p4" ELSE "calc"
    /\ UNCHANGED <<overall_status, REQUESTS_AVAILABLE, runs, exit_code,
                   requests_sent>>

check_port_connectivity ==
    /\ pc = "p3"
    /\ Len(tests) < MaxTests
    /\ \E r \in [1..NumPorts -> ConnectResults] :
         LET all_passed == PortLoop(r, 1, TRUE)
         IN  /\ add_result("Port Connectivity", all_passed,
                   IF all_passed THEN D("All tested ports are accessible")
                   ELSE D("Some ports are blocked"))
             /\ env' = Env(3, \E i \in 1..NumPorts : r[i] = "timeout", FALSE)
             /\ pc' = "p4"
    /\ UNCHANGED <<overall_status, REQUESTS_AVAILABLE, runs, exit_code,
                   requests_sent>>

-----------------------------------------------------------------------------
(* check_http_response_time *)

\* requests.get: a response after some seconds, requests.exceptions.Timeout,
\* ConnectionError, or another exception
Elapsed == 1..MaxElapsed
GetResults ==
    [kind : {"response"}, elapsed : Elapsed]
        \cup [kind : {"Timeout", "ConnectionError", "Exception"}, elapsed : {0}]

RECURSIVE HttpLoop(_, _, _, _)
HttpLoop(r, i, all_passed, suspicious_slow) ==
    IF i > Len(r)
    THEN [all_passed |-> all_passed, suspicious_slow |-> suspicious_slow]
    ELSE IF r[i].kind = "response"
    THEN HttpLoop(r, i + 1, all_passed,
                  IF r[i].elapsed > SlowSeconds THEN TRUE ELSE suspicious_slow)
    ELSE HttpLoop(r, i + 1, FALSE, suspicious_slow)

\* "if not REQUESTS_AVAILABLE": the probe is skipped
SkipNever == FALSE

Skip == ~REQUESTS_AVAILABLE

check_http_response_time ==
    /\ pc = "p4"
    /\ Len(tests) < MaxTests
    /\ IF Skip
       THEN /\ add_result("HTTP Response Time", TRUE,
                          D("Test skipped (requests not installed)"))
            /\ env' = Env(4, FALSE, FALSE)
            /\ UNCHANGED requests_sent
       ELSE \E r \in [1..NumUrls -> GetResults] :
              LET out == HttpLoop(r, 1, TRUE, FALSE)
              IN  /\ IF out.suspicious_slow /\ out.all_passed
                     THEN add_result("HTTP Response Time", TRUE,
                              D("Response times may indicate throttling"))
                     ELSE add_result("HTTP Response Time", out.all_passed,
                              IF out.all_passed THEN D("HTTP responses normal")
                              ELSE D("HTTP requests failed"))
                  /\ env' = Env(4, \E i \in 1..NumUrls : r[i].kind = "Timeout",
                                FALSE)
                  /\ requests_sent' = requests_sent + NumUrls
    /\ pc' = "p5"
    /\ UNCHANGED <<overall_status, REQUESTS_AVAILABLE, runs, exit_code>>

-----------------------------------------------------------------------------
(* check_mtu_size *)

\* subprocess.run of ping: exit status 0, another exit status,
\* subprocess.TimeoutExpired, or another exception (FileNotFoundError included)
MtuResults == {"rc0", "rc_nonzero", "TimeoutExpired", "Exception"}

MtuOutcomeTimeoutAsException(r) ==
    IF r = "rc0" THEN [passed |-> TRUE, details |-> D("No fragmentation issues detected")]
    ELSE IF r = "rc_nonzero"
    THEN [passed |-> FALSE, details |-> D("Potential MTU/fragmentation issues")]
    ELSE [passed |-> TRUE, details |-> D("Test could not be completed")]

MtuOutcome(r) ==
    IF r = "rc0" THEN [passed |-> TRUE, details |-> D("No fragmentation issues detected")]
    ELSE IF r = "rc_nonzero"
    THEN [passed |-> FALSE, details |-> D("Potential MTU/fragmentation issues")]
    ELSE IF r = "TimeoutExpired" THEN [passed |-> FALSE, details |-> D("Ping timeout")]
    ELSE [passed |-> TRUE, details |-> D("Test could not be completed")]

check_mtu_size ==
    /\ pc = "p5"
    /\ Len(tests) < MaxTests
    /\ \E r \in MtuResults :
         /\ add_result("MTU Check", MtuOutcome(r).passed, MtuOutcome(r).details)
         /\ env' = Env(5, r = "TimeoutExpired", FALSE)
    /\ pc' = "p6"
    /\ UNCHANGED <<overall_status, REQUESTS_AVAILABLE, runs, exit_code,
                   requests_sent>>

-----------------------------------------------------------------------------
(* check_dns_servers *)

\* socket.error is OSError: gaierror and timeout are caught, other classes
\* of exception are not
RECURSIVE DnsServersLoop(_, _, _)
DnsServersLoop(r, i, all_passed) ==
    IF i > Len(r) THEN [raised |-> FALSE, all_passed |-> all_passed]
    ELSE IF r[i] \in {"addr", "empty"} THEN DnsServersLoop(r, i + 1, all_passed)
    ELSE IF r[i] \in {"gaierror", "timeout"} THEN DnsServersLoop(r, i + 1, FALSE)
    ELSE [raised |-> TRUE, all_passed |-> all_passed]

check_dns_servers ==
    /\ pc = "p6"
    /\ Len(tests) < MaxTests
    /\ \E r \in [1..NumDnsServers -> LookupResults] :
         LET out == DnsServersLoop(r, 1, TRUE)
             timedOut == \E i \in Made(r) : r[i] = "timeout"
         IN  /\ env' = Env(6, timedOut, \E i \in 1..Len(r) : r[i] = "fault")
             /\ IF out.raised THEN raise
                ELSE /\ add_result("DNS Server Check", out.all_passed,
                           IF out.all_passed
                           THEN D("All tested DNS servers responding")
                           ELSE D("Some DNS servers not responding"))
                     /\ pc' = "p7"
    /\ UNCHANGED <<overall_status, REQUESTS_AVAILABLE, runs, exit_code,
                   requests_sent>>

-----------------------------------------------------------------------------
(* check_packet_loss *)

\* Text is a sequence of characters, so that Python's "in" is a search for a
\* substring and not a comparison of whole strings.
DigitChars == <<"0", "1", "2", "3", "4", "5", "6", "7", "8", "9">>

RECURSIVE Str(_)
Str(n) ==
    IF n < 10 THEN <<DigitChars[n + 1]>>
    ELSE Str(n \div 10) \o <<DigitChars[(n % 10) + 1]>>

PacketLossText ==
    <<"%", " ", "p", "a", "c", "k", "e", "t", " ", "l", "o", "s", "s">>
ReceivedText ==
    <<" ", "r", "e", "c", "e", "i", "v", "e", "d", ",", " ">>

\* needle in hay
Contains(needle, hay) ==
    \E i \in 1..(Len(hay) - Len(needle) + 1) :
        SubSeq(hay, i, i + Len(needle) - 1) = needle

\* The summary line ping prints after PingCount packets of which `lost` got no
\* reply: "<n> received, <p>% packet loss" (iputils) or "<p>.0% packet loss"
\* (the BSD ping of macOS).
LossPercent(lost) == (100 * lost) \div PingCount

PingStdout(lost, platform) ==
    Str(PingCount - lost) \o ReceivedText \o Str(LossPercent(lost))
        \o (IF platform = "darwin" THEN <<".", "0">> ELSE <<>>)
        \o PacketLossText

\* subprocess.run of ping: its stdout (the summary line, or no summary when
\* ping failed before sending), subprocess.TimeoutExpired, FileNotFoundError,
\* or another exception
PingResults ==
    [kind : {"stdout"}, lost : 0..PingCount, platform : {"linux", "darwin"}]
        \cup [kind : {"no_summary", "TimeoutExpired", "FileNotFoundError",
                      "Exception"},
              lost : {0}, platform : {"linux"}]

PacketLossParse(output) ==
    IF \/ Contains(<<"0">> \o PacketLossText, output)
       \/ Contains(<<"0", ".", "0">> \o PacketLossText, output)
    THEN [passed |-> TRUE, details |-> D("Connection stable")]
    ELSE IF Contains(<<"1", "0", "0">> \o PacketLossText, output)
    THEN [passed |-> FALSE, details |-> D("Complete packet loss detected")]
    ELSE [passed |-> FALSE, details |-> D("Packet loss detected")]

PacketLossOutcome(r) ==
    IF r.kind = "stdout" THEN PacketLossParse(PingStdout(r.lost, r.platform))
    ELSE IF r.kind = "no_summary" THEN PacketLossParse(<<>>)
    ELSE IF r.kind = "TimeoutExpired"
    THEN [passed |-> FALSE, details |-> D("Ping timeout")]
    ELSE IF r.kind = "FileNotFoundError"
    THEN [passed |-> TRUE, details |-> D("Test skipped (ping not available)")]
    ELSE [passed |-> TRUE, details |-> D("Test could not be completed")]

check_packet_loss ==
    /\ pc = "p7"
    /\ Len(tests) < MaxTests
    /\ \E r \in PingResults :
         /\ add_result("Packet Loss", PacketLossOutcome(r).passed,
                       PacketLossOutcome(r).details)
         /\ env' = [probe |-> 7, timeout |-> r.kind = "TimeoutExpired",
                    fault |-> FALSE,
                    loss |-> IF r.kind = "stdout" THEN LossPercent(r.lost)
                             ELSE -1]
    /\ pc' = "p8"
    /\ UNCHANGED <<overall_status, REQUESTS_AVAILABLE, runs, exit_code,
                   requests_sent>>

-----------------------------------------------------------------------------
(* check_http_vs_https *)

\* http_time and https_time stay None (0 here) when the request raises; the
\* test "if http_time and https_time" is false for None
DpiOutcome(http, https) ==
    LET http_time == IF http.kind = "response" THEN http.elapsed ELSE 0
        https_time == IF https.kind = "response" THEN https.elapsed ELSE 0
    IN  IF http_time # 0 /\ https_time # 0 /\ https_time > http_time * DpiFactor
        THEN [name |-> "DPI/Throttling Check", passed |-> FALSE,
              details |-> DA("HTTPS much slower than HTTP",
                             <<https_time, http_time>>)]
        ELSE [name |-> "DPI/Throttling Check", passed |-> TRUE,
              details |-> D("No obvious throttling detected")]

check_http_vs_https ==
    /\ pc = "p8"
    /\ Len(tests) < MaxTests
    /\ IF Skip
       THEN /\ add_result("DPI Check", TRUE, D("Test skipped"))
            /\ env' = Env(8, FALSE, FALSE)
            /\ UNCHANGED requests_sent
       ELSE \E http \in GetResults, https \in GetResults :
              LET out == DpiOutcome(http, https)
              IN  /\ add_result(out.name, out.passed, out.details)
                  /\ env' = Env(8, "Timeout" \in {http.kind, https.kind}, FALSE)
                  /\ requests_sent' = requests_sent + 2
    /\ pc' = "calc"
    /\ UNCHANGED <<overall_status, REQUESTS_AVAILABLE, runs, exit_code>>

-----------------------------------------------------------------------------
(* calculate_overall_status *)

RECURSIVE PassedTests(_)
PassedTests(ts) ==
    IF ts = <<>> THEN 0
    ELSE (IF ts[1].passed THEN 1 ELSE 0) + PassedTests(Tail(ts))

\* passed_tests >= total_tests * 0.7 is a comparison of doubles.  0.7 is
\* the double just below 7/10 and the product is rounded once, so for every
\* list length below 2^50 it is true exactly when 10 * passed >= 7 * total.
OverallStatusExclusive(ts) ==
    LET passed_tests == PassedTests(ts)
        total_tests == Len(ts)
    IN  IF passed_tests = total_tests THEN "clear"
        ELSE IF 10 * passed_tests > 7 * total_tests THEN "partial_restriction"
        ELSE "restricted"

OverallStatus(ts) ==
    LET passed_tests == PassedTests(ts)
        total_tests == Len(ts)
    IN  IF passed_tests = total_tests THEN "clear"
        ELSE IF 10 * passed_tests >= 7 * total_tests THEN "partial_restriction"
        ELSE "restricted"

calculate_overall_status ==
    /\ overall_status' = OverallStatus(tests)
    /\ UNCHANGED <<tests, issues_found>>

-----------------------------------------------------------------------------
(* run_all_checks *)

ProbeStep(k) == <<"p1", "p2", "p3", "p4", "p5", "p6", "p7", "p8">>[k]

\* the call: control enters the method
run_all_checks(limit) ==
    /\ pc = "idle"
    /\ runs < limit
    /\ pc' = "p1"
    /\ env' = NoEnv
    /\ UNCHANGED <<tests, issues_found, overall_status, REQUESTS_AVAILABLE,
                   runs, exit_code, requests_sent>>

\* "passed, total = self.calculate_overall_status()"
run_calculate ==
    /\ pc = "calc"
    /\ calculate_overall_status
    /\ pc' = "ret"
    /\ UNCHANGED <<REQUESTS_AVAILABLE, runs, exit_code, requests_sent, env>>

\* the summary is printed and self.results is returned
run_return ==
    /\ pc = "ret"
    /\ pc' = "idle"
    /\ runs' = runs + 1
    /\ UNCHANGED <<tests, issues_found, overall_status, REQUESTS_AVAILABLE,
                   exit_code, requests_sent, env>>

\* an exception no caller handles ends the interpreter with status 1
uncaught ==
    /\ pc = "raised"
    /\ pc' = "exited"
    /\ exit_code' = 1
    /\ UNCHANGED <<tests, issues_found, overall_status, REQUESTS_AVAILABLE,
                   runs, requests_sent, env>>

-----------------------------------------------------------------------------
(* main *)

main_run == run_all_checks(1)

ExitCodeAlwaysZero(status) == 0

ExitCode(status) == IF status = "clear" THEN 0 ELSE 1

main_exit ==
    /\ pc = "idle"
    /\ runs = 1
    /\ pc' = "exited"
    /\ exit_code' = ExitCode(overall_status)
    /\ UNCHANGED <<tests, issues_found, overall_status, REQUESTS_AVAILABLE,
                   runs, requests_sent, env>>

Next ==
    \/ main_run
    \/ check_dns_resolution
    \/ check_dns_against_blocked_domains
    \/ check_port_connectivity
    \/ check_http_response_time
    \/ check_mtu_size
    \/ check_dns_servers
    \/ check_packet_loss
    \/ check_http_vs_https
    \/ run_calculate
    \/ run_return
    \/ uncaught
    \/ main_exit

Spec == Init /\ [][Next]_vars

-----------------------------------------------------------------------------
(* The checker used as a library: a client that holds one checker calls     *)
(* add_result, calculate_overall_status and run_all_checks in any order.    *)

ClientNames == {"Custom Check"}

ClientAdded(ts) == {i \in 1..Len(ts) : ts[i].details = D("client")}

client_add_result ==
    /\ pc = "idle"
    /\ Len(tests) < MaxTests
    /\ Cardinality(ClientAdded(tests)) < MaxClientAdds
    /\ \E test_name \in ClientNames, passed \in BOOLEAN :
         add_result(test_name, passed, D("client"))
    /\ UNCHANGED <<overall_status, REQUESTS_AVAILABLE, pc, runs, exit_code,
                   requests_sent, env>>

client_calculate ==
    /\ pc = "idle"
    /\ calculate_overall_status
    /\ UNCHANGED <<REQUESTS_AVAILABLE, pc, runs, exit_code, requests_sent, env>>

client_run == run_all_checks(MaxRuns)

NextApi ==
    \/ client_add_result
    \/ client_calculate
    \/ client_run
    \/ check_dns_resolution
    \/ check_dns_against_blocked_domains
    \/ check_port_connectivity
    \/ check_http_response_time
    \/ check_mtu_size
    \/ check_dns_servers
    \/ check_packet_loss
    \/ check_http_vs_https
    \/ run_calculate
    \/ run_return
    \/ uncaught

SpecApi == Init /\ [][NextApi]_vars

-----------------------------------------------------------------------------
(* calculate_overall_status on its own: applied to every list of outcomes   *)
(* of up to MaxOutcomes entries that add_result can have built.             *)

\* the names of the failing outcomes, in the order of the outcomes
RECURSIVE FailingNames(_)
FailingNames(ts) ==
    IF ts = <<>> THEN <<>>
    ELSE (IF ts[1].passed THEN <<>> ELSE <<ts[1].name>>)
             \o FailingNames(Tail(ts))

OutcomeLists ==
    UNION {[1..n -> [name : {"Probe"}, passed : BOOLEAN,
                     details : {D("detail")}]] : n \in 0..MaxOutcomes}

InitAggregate ==
    /\ tests \in OutcomeLists
    /\ issues_found = FailingNames(tests)
    /\ overall_status = "unknown"
    /\ REQUESTS_AVAILABLE = TRUE
    /\ pc = "idle"
    /\ runs = 0
    /\ exit_code = -1
    /\ requests_sent = 0
    /\ env = NoEnv

NextAggregate == client_calculate

SpecAggregate == InitAggregate /\ [][NextAggregate]_vars

-----------------------------------------------------------------------------
(* Properties *)

Failing(ts) == {i \in 1..Len(ts) : ~ts[i].passed}
Passing(ts) == {i \in 1..Len(ts) : ts[i].passed}
Last == tests[Len(tests)]

\* C1: a report with no outcomes has overall status Unknown, also after
\* calculate_overall_status has run on it.
C1_EmptyIsUnknown ==
    tests = <<>> => overall_status = "unknown"

\* C2: a probe in which an operation raised an exception the probe does not
\* handle still records a failing outcome, the run goes on through all eight
\* probes, and the overall status is computed before the process ends.
C2_FaultBecomesFailingOutcome ==
    /\ env.fault => /\ pc # "raised"
                    /\ Len(tests) >= env.probe
                    /\ ~tests[env.probe].passed
    /\ pc = "exited" => Len(tests) = 8 /\ overall_status # "unknown"

\* C3: when ping reported a loss percentage p, the Packet Loss outcome passed
\* exactly when p is 0.
C3_PassedIffNoLoss ==
    (env.probe = 7 /\ env.loss >= 0) => (Last.passed <=> env.loss = 0)

\* C4: issues_found is the sequence of names of the failing outcomes, in the
\* order they were recorded, and as long as there are failing outcomes.
C4_IssuesAreFailingNames ==
    /\ issues_found = FailingNames(tests)
    /\ Len(issues_found) = Cardinality(Failing(tests))

C4_Witness ==
    /\ Len(issues_found) >= 2
    /\ issues_found[1] # issues_found[2]
    /\ \E i \in Passing(tests) : \E j \in Failing(tests) : i < j
    /\ runs >= 1

\* C5: once computed over a non-empty list, the overall status is Clear iff
\* all outcomes passed, PartialRestriction iff not all but at least 70% passed
\* (7 of 10 included), Restricted otherwise (6 of 10 included); it is decided
\* by the two counts alone.
C5_StatusByCounts ==
    (overall_status # "unknown" /\ tests # <<>>) =>
        LET p == Cardinality(Passing(tests))
            t == Len(tests)
        IN  /\ overall_status = "clear" <=> p = t
            /\ overall_status = "partial_restriction"
                   <=> (p < t /\ 10 * p >= 7 * t)
            /\ overall_status = "restricted" <=> 10 * p < 7 * t
            /\ (t = 10 /\ p = 7) => overall_status = "partial_restriction"
            /\ (t = 10 /\ p = 6) => overall_status = "restricted"

C5_Witness ==
    /\ Len(tests) = 10
    /\ Cardinality(Passing(tests)) = 7
    /\ tests[1].passed = FALSE
    /\ overall_status = "partial_restriction"

\* C6: a run of run_all_checks on a fresh checker in which every probe came
\* to a result records the eight outcomes in the fixed order whatever failed
\* before; with exactly one failure the status is PartialRestriction and
\* issues_found holds that probe's name alone.
ProbeNames ==
    << {"DNS Resolution"}, {"Domain Accessibility"}, {"Port Connectivity"},
       {"HTTP Response Time"}, {"MTU Check"}, {"DNS Server Check"},
       {"Packet Loss"}, {"DPI Check", "DPI/Throttling Check"} >>

C6_EightOutcomesInOrder ==
    /\ \A i \in 1..Len(tests) : i <= 8 /\ tests[i].name \in ProbeNames[i]
    /\ \A k \in 1..8 : pc = ProbeStep(k) => Len(tests) = k - 1
    /\ (pc \in {"calc", "ret"} \/ runs = 1) =>
          /\ Len(tests) = 8
          /\ \A k \in 1..8 : tests[k].name \in ProbeNames[k]
    /\ (runs = 1 /\ Cardinality(Failing(tests)) = 1) =>
          /\ overall_status = "partial_restriction"
          /\ \E k \in 1..8 : /\ ~tests[k].passed
                             /\ issues_found = <<tests[k].name>>

C6_Witness ==
    /\ runs = 1
    /\ Failing(tests) = {3}
    /\ issues_found = <<"Port Connectivity">>

\* C7: once run_all_checks has returned the report, no operation changes its
\* outcomes, issues or overall status.
C7_ReportFrozenAfterReturn ==
    [][runs >= 1 => results' = results]_vars

\* C8: without the requests library the HTTP Response Time and DPI probes
\* each record one passing outcome whose detail says the test was skipped,
\* no request is issued, and neither name enters issues_found.
SkipNames == {"HTTP Response Time", "DPI Check", "DPI/Throttling Check"}

C8_SkippedWithoutRequests ==
    ~REQUESTS_AVAILABLE =>
        /\ requests_sent = 0
        /\ \A i \in 1..Len(issues_found) : issues_found[i] \notin SkipNames
        /\ Len(tests) >= 4 =>
              /\ tests[4] = [name |-> "HTTP Response Time", passed |-> TRUE,
                             details |-> D("Test skipped (requests not installed)")]
              /\ Cardinality({i \in 1..Len(tests) :
                                 tests[i].name = "HTTP Response Time"}) = 1
        /\ Len(tests) >= 8 =>
              /\ tests[8] = [name |-> "DPI Check", passed |-> TRUE,
                             details |-> D("Test skipped")]
              /\ Cardinality({i \in 1..Len(tests) :
                                 tests[i].name \in ProbeNames[8]}) = 1

C8_Witness ==
    /\ ~REQUESTS_AVAILABLE
    /\ runs = 1
    /\ Len(tests) = 8
    /\ Failing(tests) # {}

C10_TimeoutAlwaysFails ==
    (env.timeout /\ ~env.fault) => ~Last.passed

\* C10 as amended: a timeout never leaves a probe as an exception; the
\* outcome recorded after it is failing in DNS Resolution, Port Connectivity,
\* HTTP Response Time, MTU, DNS Server and Packet Loss; in Domain
\* Accessibility it fails only if more than half the domains are blocked; in
\* the DPI probe it passes.  Only when another lookup of the same probe raised
\* an exception the probe has no handler for is no outcome recorded.
C10_TimeoutHandledInProbe ==
    env.timeout =>
        IF env.fault
        THEN /\ env.probe \in {1, 2, 6}
             /\ pc \in {"raised", "exited"}
             /\ Len(tests) = env.probe - 1
        ELSE /\ pc # "raised"
             /\ exit_code = -1 \/ runs = 1
             /\ Len(tests) >= env.probe
             /\ tests[env.probe].name \in ProbeNames[env.probe]
             /\ env.probe \in {1, 3, 4, 5, 6, 7} => ~tests[env.probe].passed
             /\ env.probe = 2 =>
                   (tests[2].passed
                       <=> 2 * tests[2].details.args[3] <= NumAccessDomains)
             /\ env.probe = 8 => tests[8].passed

C10_Witness ==
    /\ env.timeout /\ ~env.fault
    /\ env.probe = 2
    /\ tests[2].passed
    /\ pc = "p3"

====
